---- MODULE Spec2Model ----
(***************************************************************************)
(* A model of the CORS relay handler of api/proxy.js: one invocation of    *)
(* handler(req, res), the fetch() call it makes, the upstream that answers *)
(* it, the response it writes on res and the stream piped into it.         *)
(*                                                                         *)
(* JavaScript values are modelled as follows.  Strings are strings.  A     *)
(* plain object is the sequence of its <<key, value>> own properties in    *)
(* insertion order, keys distinct and compared exactly (case-sensitive).   *)
(* undefined is Undefined.  A fetch Headers list is a function from the    *)
(* lower-cased header names to their combined values.                      *)
(***************************************************************************)
EXTENDS Naturals, Sequences, FiniteSets, TLC

\* Number of chunks of the longest inbound body and upstream body.
MaxChunks == 2

Undefined == "<undefined>"

----------------------------------------------------------------------------
(* JavaScript and library helpers *)

\* !!v for the string-or-undefined values the handler tests.
Truthy(v) == v # Undefined /\ v # ""

\* String.prototype.toLowerCase on the names and hosts that occur here:
\* every other string of the model is already lower case.
ToLowerCase(s) ==
  CASE s = "Authorization" -> "authorization"
    [] s = "User-Agent" -> "user-agent"
    [] s = "X-Api-Key" -> "x-api-key"
    [] s = "Content-Type" -> "content-type"
    [] s = "Content-Length" -> "content-length"
    [] s = "ETag" -> "etag"
    [] s = "Transfer-Encoding" -> "transfer-encoding"
    [] s = "Connection" -> "connection"
    [] s = "Keep-Alive" -> "keep-alive"
    [] s = "Access-Control-Allow-Origin" -> "access-control-allow-origin"
    [] s = "Access-Control-Allow-Credentials" -> "access-control-allow-credentials"
    [] s = "Access-Control-Allow-Methods" -> "access-control-allow-methods"
    [] s = "Access-Control-Allow-Headers" -> "access-control-allow-headers"
    [] s = "Access-Control-Max-Age" -> "access-control-max-age"
    [] s = "Access-Control-Expose-Headers" -> "access-control-expose-headers"
    [] s = "API.Example.com" -> "api.example.com"
    [] s = "Other.com" -> "other.com"
    [] OTHER -> s

\* String.prototype.trim on the allow-list entries that occur here.
Trim(s) ==
  CASE s = " API.Example.com" -> "API.Example.com"
    [] s = " example.org " -> "example.org"
    [] OTHER -> s

\* String.prototype.split(',') on the ALLOWLIST values that occur here.
SplitComma(s) ==
  CASE s = "api.example.com" -> << "api.example.com" >>
    [] s = "Other.com, API.Example.com" -> << "Other.com", " API.Example.com" >>
    [] s = "example.com, example.org " -> << "example.com", " example.org " >>
    [] OTHER -> << s >>

\* new URL(u): whether it parses, and the protocol and hostname of the
\* result.  The parser lower-cases the host of an http(s) URL.
ParseURL(u) ==
  CASE u = "https://api.example.com/data" ->
         [ok |-> TRUE, protocol |-> "https:", hostname |-> "api.example.com"]
    [] u = "https://API.Example.com/data" ->
         [ok |-> TRUE, protocol |-> "https:", hostname |-> "api.example.com"]
    [] u = "http://other.com/x" ->
         [ok |-> TRUE, protocol |-> "http:", hostname |-> "other.com"]
    [] u = "ftp://example.com" ->
         [ok |-> TRUE, protocol |-> "ftp:", hostname |-> "example.com"]
    [] OTHER -> [ok |-> FALSE, protocol |-> "", hostname |-> ""]

\* Buffer.from(h64, 'base64').toString('utf8').  The decoder never throws:
\* characters outside the alphabet are skipped, so "!!!" decodes to "".
Base64ToUtf8(h64) ==
  CASE h64 = "eyJBdXRob3JpemF0aW9uIjoiQmVhcmVyIGFiYyJ9" -> "{\"Authorization\":\"Bearer abc\"}"
    [] h64 = "eyJ1c2VyLWFnZW50IjoiY3VzdG9tLzEifQ==" -> "{\"user-agent\":\"custom/1\"}"
    [] h64 = "eyJVc2VyLUFnZW50IjoiY3VzdG9tLzEifQ==" -> "{\"User-Agent\":\"custom/1\"}"
    [] h64 = "eyJYLUFwaS1LZXkiOiJrMSJ9" -> "{\"X-Api-Key\":\"k1\"}"
    [] h64 = "e25vdCBqc29u" -> "{not json"
    [] h64 = "bnVsbA==" -> "null"
    [] h64 = "NDI=" -> "42"
    [] h64 = "InN0ciI=" -> "\"str\""
    [] h64 = "WyJ4Il0=" -> "[\"x\"]"
    [] h64 = "W10=" -> "[]"
    [] OTHER -> ""

\* JSON.parse(json): the kind of value it yields ("throw" when it raises a
\* SyntaxError) and, for an object or an array, Object.entries of it.
JSONParse(json) ==
  CASE json = "{\"Authorization\":\"Bearer abc\"}" ->
         [kind |-> "object", entries |-> << <<"Authorization", "Bearer abc">> >>]
    [] json = "{\"user-agent\":\"custom/1\"}" ->
         [kind |-> "object", entries |-> << <<"user-agent", "custom/1">> >>]
    [] json = "{\"User-Agent\":\"custom/1\"}" ->
         [kind |-> "object", entries |-> << <<"User-Agent", "custom/1">> >>]
    [] json = "{\"X-Api-Key\":\"k1\"}" ->
         [kind |-> "object", entries |-> << <<"X-Api-Key", "k1">> >>]
    [] json = "null" -> [kind |-> "null", entries |-> << >>]
    [] json = "42" -> [kind |-> "number", entries |-> << >>]
    [] json = "\"str\"" -> [kind |-> "string", entries |-> << >>]
    [] json = "[\"x\"]" -> [kind |-> "array", entries |-> << <<"0", "x">> >>]
    [] json = "[]" -> [kind |-> "array", entries |-> << >>]
    [] OTHER -> [kind |-> "throw", entries |-> << >>]

\* Plain-object operations: k in obj, obj[k], obj[k] = v, delete obj[k].
ObjHas(obj, k) == \E i \in 1..Len(obj) : obj[i][1] = k

ObjGet(obj, k) ==
  IF ObjHas(obj, k)
  THEN obj[CHOOSE i \in 1..Len(obj) : obj[i][1] = k][2]
  ELSE Undefined

ObjSet(obj, k, v) ==
  IF ObjHas(obj, k)
  THEN [i \in 1..Len(obj) |-> IF obj[i][1] = k THEN <<k, v>> ELSE obj[i]]
  ELSE Append(obj, <<k, v>>)

ObjDelete(obj, k) == SelectSeq(obj, LAMBDA p : p[1] # k)

\* { ...a, ...b }: a property of a that b has too keeps its place and takes
\* b's value; the other properties of b follow in b's order.
ObjAssign(a, b) ==
  [i \in 1..Len(a) |->
     IF ObjHas(b, a[i][1]) THEN <<a[i][1], ObjGet(b, a[i][1])>> ELSE a[i]]
  \o SelectSeq(b, LAMBDA p : ~ObjHas(a, p[1]))

\* The values of a sequence of strings joined with ", ".
RECURSIVE JoinComma(_)
JoinComma(vs) ==
  IF Len(vs) = 1 THEN vs[1] ELSE vs[1] \o ", " \o JoinComma(Tail(vs))

\* new Headers(obj), as fetch builds it from init.headers: every property
\* is appended under its lower-cased name, and the values appended under
\* one name are combined in order, separated by ", ".
HeadersOf(obj) ==
  [n \in {ToLowerCase(obj[i][1]) : i \in 1..Len(obj)} |->
     LET same == SelectSeq(obj, LAMBDA p : ToLowerCase(p[1]) = n)
     IN JoinComma([i \in 1..Len(same) |-> same[i][2]])]

----------------------------------------------------------------------------
(* The request, the configuration and the upstream's answers *)

Methods == {"GET", "HEAD", "POST", "OPTIONS"}

\* req.query.url: absent, empty, not a URL, not http(s), and three targets.
UrlValues ==
  {Undefined, "", "not-a-url", "ftp://example.com",
   "https://api.example.com/data", "https://API.Example.com/data",
   "http://other.com/x"}

\* req.query.h64: absent, four header objects, characters that are not
\* base64, and the base64 of: invalid JSON, null, 42, "str", ["x"], [].
H64Values ==
  {Undefined,
   "eyJBdXRob3JpemF0aW9uIjoiQmVhcmVyIGFiYyJ9",
   "eyJ1c2VyLWFnZW50IjoiY3VzdG9tLzEifQ==",
   "eyJVc2VyLUFnZW50IjoiY3VzdG9tLzEifQ==",
   "eyJYLUFwaS1LZXkiOiJrMSJ9",
   "!!!", "e25vdCBqc29u", "bnVsbA==", "NDI=", "InN0ciI=", "WyJ4Il0=", "W10="}

\* req.headers, as Node's HTTP parser hands it over: lower-case names.
BrowserHeaders ==
  << <<"host", "relay.example.app">>, <<"connection", "keep-alive">>,
     <<"user-agent", "Mozilla/5.0 Firefox">>, <<"accept", "application/json">>,
     <<"authorization", "Basic old">>, <<"origin", "https://app.example">> >>

ScriptHeaders ==
  << <<"host", "relay.example.app">>, <<"accept", "*/*">>,
     <<"transfer-encoding", "chunked">>, <<"te", "trailers">>,
     <<"content-type", "application/json">> >>

HeaderValues == {BrowserHeaders, ScriptHeaders}

\* The inbound body: none, or MaxChunks chunks numbered in order.
BodyValues == {[i \in 1..n |-> i] : n \in {0, MaxChunks}}

\* process.env.ALLOWLIST
AllowlistValues ==
  {Undefined, "api.example.com", "Other.com, API.Example.com",
   "example.com, example.org "}

\* The messages of the errors fetch() rejects with.
FetchErrors == {"getaddrinfo ENOTFOUND api.example.com", "socket hang up"}

\* The header lists upstream responses carry, as upstream.headers iterates
\* them (sorted by lower-cased name).
PlainResponseHeaders ==
  << <<"Content-Length", "17">>, <<"Content-Type", "application/json">>,
     <<"ETag", "abc">> >>

ChunkedResponseHeaders ==
  << <<"Connection", "close">>, <<"Content-Type", "image/png">>,
     <<"Keep-Alive", "timeout=5">>, <<"Transfer-Encoding", "chunked">> >>

CorsResponseHeaders ==
  << <<"Access-Control-Allow-Credentials", "true">>,
     <<"Access-Control-Allow-Origin", "https://their.example">>,
     <<"Access-Control-Expose-Headers", "X-Total-Count">>,
     <<"Content-Type", "text/plain">> >>

\* What fetch() can resolve with.  body tells whether upstream.body is null
\* or a stream.
Responses ==
  [status : {200, 404},
   headers : {PlainResponseHeaders, ChunkedResponseHeaders, CorsResponseHeaders},
   body : {"null", "stream"}]

\* The fetch the runtime provides as the global `fetch`: one whose response
\* bodies are Node Readable streams, which have pipe ("node"), or one whose
\* bodies are WHATWG ReadableStreams, which have no pipe method ("web":
\* Node's built-in fetch).
FetchKinds == {"node", "web"}

NoResponse == [status |-> 0, headers |-> << >>, body |-> "null"]

----------------------------------------------------------------------------
(* The functions of api/proxy.js *)

HOP_BY_HOP ==
  {"connection", "keep-alive", "proxy-authenticate", "proxy-authorization",
   "te", "trailers", "transfer-encoding", "upgrade", "host"}

\* The object returned, or null: [null |-> TRUE] stands for null.
decodeHeaderBase64(h64) ==
  LET obj == JSONParse(Base64ToUtf8(h64))
  IN IF obj.kind \in {"object", "array"}
     THEN [null |-> FALSE, entries |-> obj.entries]
     ELSE [null |-> TRUE, entries |-> << >>]

corsHeaders(origin) ==
  << <<"Access-Control-Allow-Origin", origin>>,
     <<"Access-Control-Allow-Credentials", "false">>,
     <<"Access-Control-Allow-Methods", "GET,POST,PUT,PATCH,DELETE,OPTIONS">>,
     <<"Access-Control-Allow-Headers",
       "Content-Type, Authorization, X-Requested-With, X-CSRF-Token, Accept, Origin">>,
     <<"Access-Control-Max-Age", "86400">> >>

isHttpUrl(u) ==
  LET parsed == ParseURL(u)
  IN parsed.ok /\ (parsed.protocol = "http:" \/ parsed.protocol = "https:")

\* allowedByEnv comparing the entries as written, without lower-casing them.
allowedByEnv_CaseSensitive(u, allow) ==
  IF ~Truthy(allow) THEN TRUE
  ELSE LET host == ParseURL(u).hostname
           list == SplitComma(allow)
       IN \E i \in 1..Len(list) : Trim(list[i]) = host

allowedByEnv(u, allow) ==
  IF ~Truthy(allow) THEN TRUE
  ELSE LET host == ParseURL(u).hostname
           list == SplitComma(allow)
       IN \E i \in 1..Len(list) :
            ToLowerCase(Trim(list[i])) = ToLowerCase(host)

\* const origin = req.headers.origin || '*'
OriginOf(r) ==
  IF Truthy(ObjGet(r.headers, "origin")) THEN ObjGet(r.headers, "origin") ELSE "*"

\* const extraHeaders = h64 ? decodeHeaderBase64(h64) : null
ExtraHeaders(r) ==
  IF Truthy(r.h64) THEN decodeHeaderBase64(r.h64)
  ELSE [null |-> TRUE, entries |-> << >>]

DefaultUserAgent == "Mozilla/5.0 (CORS-Proxy on Vercel)"

\* CopiedHeaders with 'host' missing from the hop-by-hop set.
CopiedHeaders_KeepsHost(r) ==
  SelectSeq(r.headers,
            LAMBDA p : ToLowerCase(p[1]) \notin (HOP_BY_HOP \ {"host"}))

\* The inbound headers that are not hop-by-hop.
CopiedHeaders(r) ==
  SelectSeq(r.headers, LAMBDA p : ToLowerCase(p[1]) \notin HOP_BY_HOP)

\* upstreamHeaders['user-agent'] = upstreamHeaders['user-agent'] || default
WithUserAgent(obj) ==
  ObjSet(obj, "user-agent",
         IF Truthy(ObjGet(obj, "user-agent")) THEN ObjGet(obj, "user-agent")
         ELSE DefaultUserAgent)

\* The upstreamHeaders object the handler builds.
UpstreamHeaders(r) ==
  LET base == ObjDelete(WithUserAgent(CopiedHeaders(r)), "origin")
      extra == ExtraHeaders(r)
  IN IF extra.null THEN base ELSE ObjAssign(base, extra.entries)

\* BodyOf withholding the body from GET alone.
BodyOf_OnlyGet(r) == IF r.method = "GET" THEN Undefined ELSE "req"

\* init.body: the request stream itself, or undefined.
BodyOf(r) == IF r.method \in {"GET", "HEAD"} THEN Undefined ELSE "req"

\* The call fetch(url, init), with init.headers as the Headers fetch makes.
FetchCall(r) ==
  [url |-> r.url, method |-> r.method,
   headers |-> HeadersOf(UpstreamHeaders(r)), body |-> BodyOf(r)]

\* headers['Access-Control-Expose-Headers'] || 'Content-Type, ...'
ExposeHeaders(headers) ==
  IF Truthy(ObjGet(headers, "Access-Control-Expose-Headers"))
  THEN ObjGet(headers, "Access-Control-Expose-Headers")
  ELSE "Content-Type, Content-Length, ETag"

\* upstream.headers.forEach: the keys are the lower-cased names.
CopiedResponseHeaders(resp) ==
  LET kept == SelectSeq(resp.headers,
                        LAMBDA p : ToLowerCase(p[1]) \notin HOP_BY_HOP)
  IN [i \in 1..Len(kept) |-> <<ToLowerCase(kept[i][1]), kept[i][2]>>]

\* The headers object written with the upstream's status.
RelayHeaders(resp, origin) ==
  LET withCors == ObjAssign(CopiedResponseHeaders(resp), corsHeaders(origin))
  IN ObjSet(withCors, "Access-Control-Expose-Headers", ExposeHeaders(withCors))

\* UpstreamErrorBody without the failure message.
UpstreamErrorBody_NoDetail(message) == << <<"error", "Upstream error">> >>

\* { error: 'Upstream error', detail: err.message }
UpstreamErrorBody(message) ==
  << <<"error", "Upstream error">>, <<"detail", message>> >>

\* { 'Content-Type': 'application/json', ...corsHeaders(origin) }
JsonHeaders(origin) ==
  ObjAssign(<< <<"Content-Type", "application/json">> >>, corsHeaders(origin))

----------------------------------------------------------------------------
(* One invocation of handler(req, res) *)

VARIABLES
  req,          \* the inbound request: method, url, h64, headers, body
  ALLOWLIST,    \* process.env.ALLOWLIST
  pc,           \* "start", "awaitFetch", "returned", or "rejected" (it threw)
  fetchCalls,   \* the fetch() calls made so far
  upstream,     \* the upstream exchange: state, request chunks received,
                \* rejection message, response, response chunks emitted
  res,          \* the response: heads written, writeHead calls, JSON body,
                \* chunks written, state, and whether a body is piped into it
  callerGone,   \* the caller has disconnected
  fetchKind,    \* the kind of streams the runtime's fetch gives
  lateFailure   \* a failure happened after a head had been written

vars ==
  <<req, ALLOWLIST, pc, fetchCalls, upstream, res, callerGone, fetchKind,
    lateFailure>>

\* res.writeHead(status, headers) while no head has been written.
WriteHead(r, status, headers) ==
  [r EXCEPT !.heads = Append(@, [status |-> status, headers |-> headers]),
            !.writeHeadCalls = @ + 1]

\* res.writeHead once a head has been written: Node throws
\* ERR_HTTP_HEADERS_SENT and writes nothing.
WriteHeadAgain(r) == [r EXCEPT !.writeHeadCalls = @ + 1]

\* res.end()
End(r) == [r EXCEPT !.state = "ended"]

\* res.end(JSON.stringify(obj))
EndJson(r, obj) == [r EXCEPT !.json = obj, !.state = "ended"]

\* res.writeHead(status, { 'Content-Type': ..., ...cors }); res.end(JSON...)
ReplyJson(r, status, origin, obj) ==
  EndJson(WriteHead(r, status, JsonHeaders(origin)), obj)

Init ==
  /\ req \in [method : Methods, url : UrlValues, h64 : H64Values,
              headers : HeaderValues, body : BodyValues]
  /\ ALLOWLIST \in AllowlistValues
  /\ pc = "start"
  /\ fetchCalls = << >>
  /\ upstream = [state |-> "idle", received |-> << >>, error |-> "",
                 response |-> NoResponse, emitted |-> 0]
  /\ res = [heads |-> << >>, writeHeadCalls |-> 0, json |-> << >>,
            chunks |-> << >>, state |-> "open", piped |-> FALSE]
  /\ callerGone = FALSE
  /\ fetchKind \in FetchKinds
  /\ lateFailure = FALSE

\* The handler from its entry to `await fetch(url, init)`.
HandlerStart ==
  /\ pc = "start"
  /\ LET origin == OriginOf(req)
     IN IF req.method = "OPTIONS"
        THEN /\ res' = End(WriteHead(res, 204, corsHeaders(origin)))
             /\ pc' = "returned"
             /\ UNCHANGED <<fetchCalls, upstream>>
        ELSE IF ~Truthy(req.url)
        THEN /\ res' = ReplyJson(res, 400, origin,
                         << <<"error", "Falta el parámetro ?url=">> >>)
             /\ pc' = "returned"
             /\ UNCHANGED <<fetchCalls, upstream>>
        ELSE IF ~isHttpUrl(req.url)
        THEN /\ res' = ReplyJson(res, 400, origin,
                         << <<"error", "URL inválida o protocolo no permitido">> >>)
             /\ pc' = "returned"
             /\ UNCHANGED <<fetchCalls, upstream>>
        ELSE IF ~allowedByEnv(req.url, ALLOWLIST)
        THEN /\ res' = ReplyJson(res, 403, origin,
                         << <<"error", "Host no permitido por ALLOWLIST">> >>)
             /\ pc' = "returned"
             /\ UNCHANGED <<fetchCalls, upstream>>
        ELSE /\ fetchCalls' = Append(fetchCalls, FetchCall(req))
             /\ upstream' = [upstream EXCEPT !.state = "pending"]
             /\ pc' = "awaitFetch"
             /\ UNCHANGED res
  /\ UNCHANGED <<req, ALLOWLIST, callerGone, fetchKind, lateFailure>>

\* The upstream reads the next chunk of init.body, the request stream.
UpstreamReadChunk ==
  /\ upstream.state = "pending"
  /\ fetchCalls[1].body = "req"
  /\ Len(upstream.received) < Len(req.body)
  /\ upstream' = [upstream EXCEPT
                    !.received = Append(@, req.body[Len(@) + 1])]
  /\ UNCHANGED <<req, ALLOWLIST, pc, fetchCalls, res, callerGone, fetchKind,
                 lateFailure>>

\* fetch() rejects and the catch block answers 502.
FetchReject(message) ==
  /\ pc = "awaitFetch"
  /\ upstream.state = "pending"
  /\ upstream' = [upstream EXCEPT !.state = "failed", !.error = message]
  /\ res' = ReplyJson(res, 502, OriginOf(req), UpstreamErrorBody(message))
  /\ pc' = "returned"
  /\ UNCHANGED <<req, ALLOWLIST, fetchCalls, callerGone, fetchKind, lateFailure>>

\* upstream.body ? (pipe, on 'error') : res.end(), after the head is
\* written: the response, and whether pipe threw (upstream.body.pipe is not
\* a function on a WHATWG stream) so that the catch block ran and its
\* writeHead threw in turn.
StartBody(written, body, kind) ==
  IF body = "null" THEN [res |-> End(written), threw |-> FALSE]
  ELSE IF kind = "node"
  THEN [res |-> [written EXCEPT !.piped = TRUE], threw |-> FALSE]
  ELSE [res |-> WriteHeadAgain(written), threw |-> TRUE]

\* fetch() resolves: the try block from `const headers = {}` on and, when
\* pipe throws, the catch block after it.
FetchResolve(response) ==
  /\ pc = "awaitFetch"
  /\ upstream.state = "pending"
  /\ LET written == WriteHead(res, response.status,
                              RelayHeaders(response, OriginOf(req)))
         started == StartBody(written, response.body, fetchKind)
     IN /\ res' = started.res
        /\ pc' = IF started.threw THEN "rejected" ELSE "returned"
        /\ lateFailure' = started.threw
        /\ upstream' = [upstream EXCEPT
                          !.state = IF response.body = "null" THEN "ended"
                                    ELSE "streaming",
                          !.response = response]
  /\ UNCHANGED <<req, ALLOWLIST, fetchCalls, callerGone, fetchKind>>

\* pipe: a chunk of the upstream body is written to res.  The pipe stops
\* for good when res closes (unpipe pauses the source).
PipeChunk ==
  /\ upstream.state = "streaming"
  /\ res.piped
  /\ ~callerGone
  /\ upstream.emitted < MaxChunks
  /\ upstream' = [upstream EXCEPT !.emitted = @ + 1]
  /\ res' = [res EXCEPT !.chunks = Append(@, upstream.emitted + 1)]
  /\ UNCHANGED <<req, ALLOWLIST, pc, fetchCalls, callerGone, fetchKind, lateFailure>>

\* pipe: the upstream body ends and pipe ends res.
UpstreamEnd ==
  /\ upstream.state = "streaming"
  /\ res.piped
  /\ ~callerGone
  /\ upstream' = [upstream EXCEPT !.state = "ended"]
  /\ res' = End(res)
  /\ UNCHANGED <<req, ALLOWLIST, pc, fetchCalls, callerGone, fetchKind, lateFailure>>

\* The upstream body emits 'error'; the listener registered after pipe
\* destroys res.
UpstreamBodyError ==
  /\ upstream.state = "streaming"
  /\ upstream' = [upstream EXCEPT !.state = "errored"]
  /\ res' = IF res.piped THEN [res EXCEPT !.state = "destroyed"] ELSE res
  /\ lateFailure' = TRUE
  /\ UNCHANGED <<req, ALLOWLIST, pc, fetchCalls, callerGone, fetchKind>>

\* The caller disconnects while the exchange with the upstream is open.
\* The handler registers no listener for it and passes fetch no signal.
CallerDisconnect ==
  /\ ~callerGone
  /\ upstream.state \in {"pending", "streaming"}
  /\ callerGone' = TRUE
  /\ UNCHANGED <<req, ALLOWLIST, pc, fetchCalls, upstream, res, fetchKind,
                 lateFailure>>

FetchRejects == \E message \in FetchErrors : FetchReject(message)

FetchResolves == \E response \in Responses : FetchResolve(response)

Next ==
  \/ HandlerStart
  \/ UpstreamReadChunk
  \/ FetchRejects
  \/ FetchResolves
  \/ PipeChunk
  \/ UpstreamEnd
  \/ UpstreamBodyError
  \/ CallerDisconnect

Spec == Init /\ [][Next]_vars

\* The requests the liveness of the exchange is checked on: the headers and
\* h64 play no part in it, and the streams are the ones pipe works on.
LiveInit ==
  /\ Init
  /\ req.url \in {Undefined, "https://api.example.com/data"}
  /\ req.h64 = Undefined
  /\ req.headers = BrowserHeaders
  /\ ALLOWLIST \in {Undefined, "example.com, example.org "}
  /\ fetchKind = "node"

\* What the runtime guarantees: the handler runs, a pipe moves the chunks it
\* can, and the upstream keeps answering and ending a body that is read.
\* Failures and the caller's disconnection are not owed.
FairSpec ==
  /\ LiveInit
  /\ [][Next]_vars
  /\ WF_vars(HandlerStart)
  /\ WF_vars(UpstreamReadChunk)
  /\ WF_vars(FetchResolves)
  /\ WF_vars(PipeChunk)
  /\ WF_vars(UpstreamEnd)

----------------------------------------------------------------------------
(* The claims *)

\* The request reached fetch().
Forwarded == fetchCalls # << >>

\* The header lines of a written head whose name is n, case-insensitively.
Lines(headers, n) == SelectSeq(headers, LAMBDA p : ToLowerCase(p[1]) = n)

\* The origin a response is to allow: the inbound Origin header, else "*".
AllowedOrigin ==
  IF ObjHas(req.headers, "origin") THEN ObjGet(req.headers, "origin") ELSE "*"

\* The fixed cross-origin header set, each header carried once.
CarriesCrossOriginSet(headers) ==
  /\ Lines(headers, "access-control-allow-origin")
       = << <<"Access-Control-Allow-Origin", AllowedOrigin>> >>
  /\ Lines(headers, "access-control-allow-credentials")
       = << <<"Access-Control-Allow-Credentials", "false">> >>
  /\ Lines(headers, "access-control-allow-methods")
       = << <<"Access-Control-Allow-Methods", "GET,POST,PUT,PATCH,DELETE,OPTIONS">> >>
  /\ Lines(headers, "access-control-allow-headers")
       = << <<"Access-Control-Allow-Headers",
              "Content-Type, Authorization, X-Requested-With, X-CSRF-Token, Accept, Origin">> >>
  /\ Lines(headers, "access-control-max-age")
       = << <<"Access-Control-Max-Age", "86400">> >>

\* The target is an absolute http or https URL.
AbsoluteHttpUrl ==
  ParseURL(req.url).ok /\ ParseURL(req.url).protocol \in {"http:", "https:"}

\* An allow-list is configured and the target's hostname is none of its
\* entries, compared case-insensitively.
HostRefused ==
  /\ ALLOWLIST \notin {Undefined, ""}
  /\ \A i \in 1..Len(SplitComma(ALLOWLIST)) :
       ToLowerCase(Trim(SplitComma(ALLOWLIST)[i]))
         # ToLowerCase(ParseURL(req.url).hostname)

\* The status of the answer given without an upstream request; 0 when the
\* request is to be forwarded.
RefusalStatus ==
  IF req.method = "OPTIONS" THEN 204
  ELSE IF req.url \in {Undefined, ""} THEN 400
  ELSE IF ~AbsoluteHttpUrl THEN 400
  ELSE IF HostRefused THEN 403
  ELSE 0

\* C1: OPTIONS is answered 204 with an empty body, then a missing url 400,
\* then a url that is not absolute http(s) 400, then a host outside the
\* configured allow-list 403, each with a JSON error and none with an
\* upstream request; every other request makes exactly one upstream request.
C1_ValidationShortCircuits ==
  pc # "start" =>
    IF RefusalStatus = 0
    THEN Len(fetchCalls) = 1
    ELSE /\ fetchCalls = << >>
         /\ Len(res.heads) = 1
         /\ res.heads[1].status = RefusalStatus
         /\ res.state = "ended"
         /\ res.chunks = << >>
         /\ IF RefusalStatus = 204 THEN res.json = << >>
            ELSE Truthy(ObjGet(res.json, "error"))

\* A host outside a configured allow-list was answered 403.
C1_Witness ==
  /\ pc = "returned"
  /\ ALLOWLIST = "api.example.com"
  /\ req.url = "http://other.com/x"
  /\ res.heads[1].status = 403
  /\ fetchCalls = << >>

\* C2: every head written carries the cross-origin header set, with one
\* Access-Control-Allow-Origin value (the inbound Origin, else "*") and
\* Access-Control-Allow-Credentials exactly "false", names compared
\* case-insensitively, whatever headers the upstream response carried.
C2_EveryHeadCarriesCrossOriginSet ==
  \A i \in 1..Len(res.heads) : CarriesCrossOriginSet(res.heads[i].headers)

\* The Extra Header Set of the request: the object h64 decodes to.
HasExtraHeaderSet ==
  /\ req.h64 # Undefined
  /\ JSONParse(Base64ToUtf8(req.h64)).kind = "object"

\* C3: every entry of the Extra Header Set is in the outbound request with
\* exactly its value, replacing an inbound header or the default user-agent
\* of the same name, compared case-insensitively.
C3_ExtraHeadersReplace ==
  (Forwarded /\ HasExtraHeaderSet) =>
    LET extra == JSONParse(Base64ToUtf8(req.h64)).entries
        out == fetchCalls[1].headers
    IN \A i \in 1..Len(extra) :
         /\ ToLowerCase(extra[i][1]) \in DOMAIN out
         /\ out[ToLowerCase(extra[i][1])] = extra[i][2]

\* C4: an h64 that does not decode to a key-value object (bad base64, bad
\* JSON, null, a number, a string, an array) changes nothing: the outbound
\* request is the one made for the same request without h64.
C4_UndecodableH64IsAbsent ==
  (Forwarded /\ req.h64 # Undefined /\ ~HasExtraHeaderSet) =>
    fetchCalls = << FetchCall([req EXCEPT !.h64 = Undefined]) >>

\* The upstream response has been relayed.
Relayed == upstream.response # NoResponse

\* C5: the relayed head has the upstream's status and the upstream's headers
\* without the hop-by-hop ones; Access-Control-Expose-Headers is the
\* upstream's value when it set one (whatever the case of the name), and the
\* default only when it set none.
C5_RelayedHead ==
  Relayed =>
    LET sent == upstream.response.headers
        head == res.heads[1]
        exposed == Lines(sent, "access-control-expose-headers")
        hops == {"connection", "keep-alive", "proxy-authenticate",
                 "proxy-authorization", "te", "trailers", "transfer-encoding",
                 "upgrade", "host"}
    IN /\ head.status = upstream.response.status
       /\ \A h \in hops : Lines(head.headers, h) = << >>
       /\ \A i \in 1..Len(sent) :
            (ToLowerCase(sent[i][1]) \notin hops
               /\ ToLowerCase(sent[i][1]) \notin
                    {ToLowerCase(corsHeaders("*")[j][1]) : j \in 1..5})
            => \E j \in 1..Len(head.headers) :
                 /\ ToLowerCase(head.headers[j][1]) = ToLowerCase(sent[i][1])
                 /\ head.headers[j][2] = sent[i][2]
       /\ LET lines == Lines(head.headers, "access-control-expose-headers")
          IN /\ Len(lines) = 1
             /\ lines[1][2] = IF exposed = << >>
                              THEN "Content-Type, Content-Length, ETag"
                              ELSE exposed[1][2]

\* C6: when fetch fails the caller gets one response: 502, the JSON body
\* {error: "Upstream error", detail: <the failure message>} and the
\* cross-origin header set; the upstream request is not made again.
C6_UpstreamFailureIs502 ==
  upstream.state = "failed" =>
    /\ Len(fetchCalls) = 1
    /\ res.writeHeadCalls = 1
    /\ Len(res.heads) = 1
    /\ res.heads[1].status = 502
    /\ CarriesCrossOriginSet(res.heads[1].headers)
    /\ res.json = << <<"error", "Upstream error">>,
                     <<"detail", upstream.error>> >>
    /\ res.state = "ended"
    /\ res.chunks = << >>

\* fetch failed with a message and the 502 was written.
C6_Witness ==
  /\ upstream.state = "failed"
  /\ upstream.error = "socket hang up"
  /\ res.state = "ended"

\* C7: the upstream request has the inbound method; it has a body exactly
\* when the method is neither GET nor HEAD, and the chunks the upstream
\* receives are the inbound chunks, in order.
C7_MethodAndBody ==
  Forwarded =>
    /\ fetchCalls[1].method = req.method
    /\ (fetchCalls[1].body # Undefined) <=> (req.method \notin {"GET", "HEAD"})
    /\ req.method \in {"GET", "HEAD"} => upstream.received = << >>
    /\ Len(upstream.received) <= Len(req.body)
    /\ \A i \in 1..Len(upstream.received) : upstream.received[i] = req.body[i]

\* A POST whose body the upstream has received whole.
C7_Witness ==
  /\ Forwarded
  /\ req.method = "POST"
  /\ Len(req.body) = MaxChunks
  /\ upstream.received = req.body

\* C8: without an Extra Header Set the outbound headers have no hop-by-hop
\* header and no origin, one user-agent (the inbound one, else the relay's
\* default) and every other inbound header with its value.
C8_OutboundHeaders ==
  (Forwarded /\ ~HasExtraHeaderSet) =>
    LET out == fetchCalls[1].headers
        dropped == {"connection", "keep-alive", "proxy-authenticate",
                    "proxy-authorization", "te", "trailers",
                    "transfer-encoding", "upgrade", "host", "origin"}
    IN /\ DOMAIN out \cap dropped = {}
       /\ "user-agent" \in DOMAIN out
       /\ out["user-agent"] =
            IF ObjHas(req.headers, "user-agent")
            THEN ObjGet(req.headers, "user-agent")
            ELSE "Mozilla/5.0 (CORS-Proxy on Vercel)"
       /\ \A i \in 1..Len(req.headers) :
            ToLowerCase(req.headers[i][1]) \notin dropped
            => /\ req.headers[i][1] \in DOMAIN out
               /\ out[req.headers[i][1]] = req.headers[i][2]

\* A request with hop-by-hop headers and no user-agent was forwarded with
\* the default user-agent.
C8_Witness ==
  /\ Forwarded
  /\ req.h64 = Undefined
  /\ req.headers = ScriptHeaders
  /\ fetchCalls[1].headers["user-agent"] = "Mozilla/5.0 (CORS-Proxy on Vercel)"

\* C9: the head is written at most once, and a failure after it (starting
\* the stream or during it) aborts the connection: no second writeHead, no
\* clean end.
C9_HeadOnceThenAbort ==
  /\ res.writeHeadCalls <= 1
  /\ lateFailure => res.state = "destroyed"

\* C10: after the caller disconnects with the upstream exchange open, the
\* upstream request or body stream is eventually closed.
C10_UpstreamAbortedAfterDisconnect ==
  (callerGone /\ upstream.state \in {"pending", "streaming"})
    ~> (upstream.state \notin {"pending", "streaming"})

====
